---- MODULE Spec2Model ----
(***************************************************************************)
(* Conversation translator session client.                                 *)
(*                                                                         *)
(*   ad  - the ConversationServiceAdapter (connection lifecycle manager    *)
(*         and receive loop) of the recognizer the conversation holds      *)
(*   cv  - the ConversationImpl (session facade and participant registry)  *)
(*   out - what the last step did towards the outside: the operation, the  *)
(*         events raised, the requests handed to the recognizer and the    *)
(*         continuations invoked                                           *)
(*   hist - what the run has done so far (dispose calls, handles         *)
(*         released, the last connection event handled)                   *)
(***************************************************************************)
EXTENDS Integers, Sequences, FiniteSets, TLC

VARIABLES ad, cv, out, hist

vars == <<ad, cv, out, hist>>

\* ---------------------------------------------------------------- bounds
MaxAttempts == 2        \* connect attempts (promises) per adapter
MaxDispose == 2         \* dispose() calls counted
MaxLeave == 1           \* leave requests awaiting their response

Attempts == 1..MaxAttempts
NoPromise == 0          \* a null / undefined promise field
UndefinedConnection == 0 \* PromiseHelper.fromResult(undefined)

Ids == {"A", "B"}
LocalIds == {"B"}      \* the participant id the service assigns to the local user
Undefined == "undefined"
Tokens == {"t0", "t1"}
Statuses == {200, 403, 500}

\* ------------------------------------------------------------- adapter
\* State of a fresh ConversationServiceAdapter (constructor, fields).
\*   promise[a]    settlement of the promise of connect attempt a
\*   auth[a]       which credential call attempt a made
\*   connection[a] state of the IConnection attempt a created
\*   onSuccess[a]  connection.dispose() continuations attached to promise a
\*   loop[l]       the receive loop started with attempt l; loopOn[l] the
\*                 promise it waits on / the connection it reads
\*   error[a]      the error the promise of attempt a was rejected with
\*   custodian[l] the communicationCustodian the current invocation of loop l
\*                 resolves when it stops: "outer" is the one whose promise
\*                 startMessageLoop got, "inner" one of a recursive call
\*   closedEvent[a] the connection of attempt a has raised its closed event
\*                 and the event has not reached its subscribers yet
AdapterInit ==
    [ privConversationIsDisposed |-> FALSE,
      terminateMessageLoop |-> FALSE,
      privConversationConnectionPromise |-> NoPromise,
      privConnectionConfigPromise |-> NoPromise,
      privConnectionLoop |-> NoPromise,
      nAttempts |-> 0,
      promise |-> [a \in Attempts |-> "unused"],
      auth |-> [a \in Attempts |-> "none"],
      connection |-> [a \in Attempts |-> "none"],
      disposed |-> [a \in Attempts |-> 0],
      onSuccess |-> [a \in Attempts |-> 0],
      loop |-> [a \in Attempts |-> "none"],
      loopOn |-> [a \in Attempts |-> NoPromise],
      custodian |-> [a \in Attempts |-> "none"],
      error |-> [a \in Attempts |-> ""],
      closedEvent |-> [a \in Attempts |-> FALSE],
      ret |-> NoPromise,
      overflow |-> FALSE ]

IsCompleted(s, p) == s.promise[p] \in {"resolved", "rejected"}
IsError(s, p) == s.promise[p] = "rejected"
IsDisconnected(s, p) == s.connection[p] = "Disconnected"

\* the state test aimed at the wrong state: a live connection is discarded
IsStaleConnected(s, p) ==
    IsCompleted(s, p) /\ (IsError(s, p) \/ s.connection[p] = "Connected")

\* completed with an error, or with a connection whose state is Disconnected
IsStale(s, p) == IsCompleted(s, p) /\ (IsError(s, p) \/ IsDisconnected(s, p))

RECURSIVE conversationConnectImpl(_, _)
RECURSIVE configConnection(_)
RECURSIVE receiveConversationMessageOverride(_, _)
RECURSIVE startMessageLoop(_, _)

\* IConnection.dispose(): the socket is closed, the state is Disconnected.
ConnectionDispose(s, p) ==
    [s EXCEPT !.connection[p] = "Disconnected",
              !.disposed[p] = IF @ < 2 THEN @ + 1 ELSE @]

\* One pass of the receive chain of loop l: fetch the connection, then read.
receiveConversationMessageOverride(s, l) ==
    LET s0 == [s EXCEPT !.custodian[l] = IF @ = "none" THEN "outer" ELSE "inner"]
        s1 == configConnection(s0)
        p == s1.ret
    IN IF s1.overflow THEN s1
       ELSE IF p = UndefinedConnection
            \* connection.read() on undefined throws inside the success
            \* callback; the error callback sets the flag, nothing settles
            THEN [s1 EXCEPT !.terminateMessageLoop = TRUE, !.loop[l] = "ended"]
       ELSE IF s1.promise[p] = "rejected"
            THEN [s1 EXCEPT !.terminateMessageLoop = TRUE, !.loop[l] = "ended"]
       ELSE IF s1.promise[p] = "resolved"
            THEN [s1 EXCEPT !.loop[l] = "read", !.loopOn[l] = p]
       ELSE [s1 EXCEPT !.loop[l] = "wait", !.loopOn[l] = p]

\* the promise startMessageLoop got for loop l has been resolved
LoopResolved(s, l) == s.loop[l] = "done" /\ s.custodian[l] = "outer"

startMessageLoop(s, l) ==
    receiveConversationMessageOverride([s EXCEPT !.terminateMessageLoop = FALSE], l)

conversationConnectImpl(s, isUnAuthorized) ==
    LET p == s.privConversationConnectionPromise IN
    IF p # NoPromise
    THEN IF IsStale(s, p)
         THEN conversationConnectImpl(
                  [s EXCEPT !.privConversationConnectionPromise = NoPromise,
                            !.terminateMessageLoop = TRUE], FALSE)
         ELSE [s EXCEPT !.ret = p]
    ELSE IF s.nAttempts >= MaxAttempts
    THEN [s EXCEPT !.overflow = TRUE]
    ELSE LET a == s.nAttempts + 1
             s1 == [s EXCEPT !.nAttempts = a,
                             !.promise[a] = "auth",
                             !.auth[a] = IF isUnAuthorized THEN "fetchOnExpiry" ELSE "fetch",
                             !.privConversationConnectionPromise = a]
             s2 == startMessageLoop(s1, a)
         IN [s2 EXCEPT !.privConnectionLoop = a,
                       !.ret = s2.privConversationConnectionPromise]

configConnection(s) ==
    LET c == s.privConnectionConfigPromise IN
    IF c # NoPromise
    THEN IF IsStale(s, c)
         THEN configConnection([s EXCEPT !.privConnectionConfigPromise = NoPromise])
         ELSE [s EXCEPT !.ret = c]
    ELSE IF s.terminateMessageLoop
    THEN [s EXCEPT !.ret = UndefinedConnection]
    ELSE LET s1 == conversationConnectImpl(s, FALSE)
         IN [s1 EXCEPT !.privConnectionConfigPromise = s1.ret]

fetchConversationConnection(s) == configConnection(s)

\* What the continuations attached to promise p do once p has settled:
\* the connection.dispose() continuations of privDisconnect / dispose, and
\* the loops waiting on p.
RECURSIVE ResumeLoops(_, _, _)
ResumeLoops(s, p, ls) ==
    IF ls = {} THEN s
    ELSE LET l == CHOOSE x \in ls : \A y \in ls : x <= y
             s1 == IF s.loop[l] = "wait" /\ s.loopOn[l] = p
                   THEN IF s.promise[p] = "resolved"
                        THEN [s EXCEPT !.loop[l] = "read"]
                        ELSE [s EXCEPT !.terminateMessageLoop = TRUE, !.loop[l] = "ended"]
                   ELSE s
         IN ResumeLoops(s1, p, ls \ {l})

Settle(s, p, outcome) ==
    LET s1 == [s EXCEPT !.promise[p] = outcome]
        s2 == ResumeLoops(s1, p, Attempts)
    IN IF outcome = "resolved" /\ s2.onSuccess[p] > 0
       THEN [ConnectionDispose(s2, p) EXCEPT !.disposed[p] =
                 IF s2.disposed[p] + s2.onSuccess[p] < 2 THEN s2.disposed[p] + s2.onSuccess[p] ELSE 2,
                 !.onSuccess[p] = 0]
       ELSE s2

Clean(s) == [s EXCEPT !.ret = NoPromise]

\* privDisconnect: [s |-> adapter afterwards, threw |-> a TypeError escaped]
privDisconnect(s) ==
    LET s1 == [s EXCEPT !.terminateMessageLoop = TRUE]
        p == s1.privConversationConnectionPromise
    IN IF p = NoPromise
       THEN [s |-> s1, threw |-> TRUE]
       ELSE IF IsCompleted(s1, p)
       THEN IF ~IsError(s1, p)
            THEN [s |-> [ConnectionDispose(s1, p) EXCEPT
                            !.privConversationConnectionPromise = NoPromise],
                  threw |-> FALSE]
            ELSE [s |-> s1, threw |-> FALSE]
       ELSE [s |-> [s1 EXCEPT !.onSuccess[p] = IF @ < 2 THEN @ + 1 ELSE @],
             threw |-> FALSE]

\* ConversationServiceAdapter.dispose
AdapterDispose(s) ==
    LET s1 == [s EXCEPT !.privConversationIsDisposed = TRUE]
        c == s1.privConnectionConfigPromise
    IN IF c = NoPromise THEN s1
       ELSE IF s1.promise[c] = "resolved" THEN ConnectionDispose(s1, c)
       ELSE IF s1.promise[c] = "rejected" THEN s1
       ELSE [s1 EXCEPT !.onSuccess[c] = IF @ < 2 THEN @ + 1 ELSE @]

\* sendMessage: [s |-> adapter afterwards, wire |-> the frame went out now]
sendMessage(s) ==
    LET s1 == fetchConversationConnection(s)
        p == s1.ret
    IN [s |-> s1,
        wire |-> p # UndefinedConnection /\ s1.promise[p] = "resolved"]

\* -------------------------------------------------- participant registry
\* A participant as the conversation keeps it; the registry is the array
\* InternalParticipants.participants plus meId.
\*   displayName, isUsingTts   the nickname and the text-to-speech flag of
\*                             the payload the participant came in
\*   useTts, profanity, translateToLanguages   properties the attribute
\*                             handler puts on the object; Undefined until then
Participant(id, isHost, isMuted) ==
    [id |-> id, isHost |-> isHost, isMuted |-> isMuted,
     displayName |-> "n", isUsingTts |-> FALSE,
     useTts |-> Undefined, profanity |-> Undefined, translateToLanguages |-> Undefined]

\* a boolean as the value of a property that may also be Undefined
BoolValue(b) == IF b THEN "true" ELSE "false"

\* toParticipant: the Participant the application gets to see
toParticipant(p) ==
    [id |-> p.id, displayName |-> p.displayName, isHost |-> p.isHost,
     isMuted |-> p.isMuted, isUsingTts |-> p.isUsingTts]

Participants == {Participant(i, h, m) : i \in Ids, h \in BOOLEAN, m \in BOOLEAN}

IdsOf(ps) == {ps[i].id : i \in 1..Len(ps)}

\* position of the participant with this id, -1 when there is none
getParticipantIndex(ps, id) ==
    IF \E i \in 1..Len(ps) : ps[i].id = id
    THEN CHOOSE i \in 1..Len(ps) : ps[i].id = id /\ \A j \in 1..(i - 1) : ps[j].id # id
    ELSE -1

HasParticipant(ps, id) == getParticipantIndex(ps, id) # -1

getParticipant(ps, id) == ps[getParticipantIndex(ps, id)]

addOrUpdateParticipant(ps, v) ==
    IF HasParticipant(ps, v.id)
    THEN [ps EXCEPT ![getParticipantIndex(ps, v.id)] = v]
    ELSE Append(ps, v)

deleteParticipant(ps, id) == SelectSeq(ps, LAMBDA q : q.id # id)

HasMe(c) == HasParticipant(c.participants, c.meId)
Me(c) == getParticipant(c.participants, c.meId)

HasHost(c) == \E i \in 1..Len(c.participants) : c.participants[i].isHost
Host(c) ==
    c.participants[CHOOSE i \in 1..Len(c.participants) :
        c.participants[i].isHost /\ \A j \in 1..(i - 1) : ~c.participants[j].isHost]

\* ------------------------------------------------------- conversation
NoRoom == [defined |-> FALSE, participantId |-> Undefined, token |-> Undefined]
Room(pid, tok) == [defined |-> TRUE, participantId |-> pid, token |-> tok]

\* ConversationImpl after its constructor
ConversationInit ==
    [ privIsDisposed |-> FALSE,
      privRoom |-> NoRoom,
      privConversationRecognizer |-> FALSE,
      privConversationRecognizerConnection |-> FALSE,
      privIsConnected |-> FALSE,
      privIsReady |-> FALSE,
      participants |-> <<>>,
      meId |-> Undefined ]

isConnected(c) == c.privIsConnected /\ c.privIsReady

canSend(c) == c.privIsConnected /\ ~(HasMe(c) /\ Me(c).isMuted)

canSendAsHost(c) == c.privIsConnected /\ HasMe(c) /\ Me(c).isHost

Event(name, arg) == [ev |-> name, arg |-> arg]

\* the recognizer the conversation holds is disposed together with its adapter
RecognizerIsDisposed(s) == s.privConversationIsDisposed

\* dispose() begins with "if (this.isDisposed) return;": the test is on the
\* method isDisposed, not on its result, and a method is always truthy.
DisposeGuard(c) == TRUE

\* dispose: [cv, ad, released |-> connection handles released, threw]
disposeUnguarded(c, s) ==
    LET d == IF c.privConversationRecognizerConnection
             THEN privDisconnect(s) ELSE [s |-> s, threw |-> FALSE]
        c1 == [c EXCEPT !.privIsDisposed = TRUE]
    IN IF d.threw
       THEN [cv |-> c1, ad |-> d.s, released |-> 0, threw |-> TRUE]
       ELSE [cv |-> [c1 EXCEPT !.privConversationRecognizerConnection = FALSE,
                               !.privRoom = NoRoom,
                               !.privConversationRecognizer = FALSE,
                               !.privIsConnected = FALSE,
                               !.privIsReady = FALSE,
                               !.participants = <<>>,
                               !.meId = Undefined],
             ad |-> d.s,
             released |-> IF c.privConversationRecognizerConnection THEN 1 ELSE 0,
             threw |-> FALSE]

\* no guard, and the connection handle is kept after it was released
disposeKeepingHandle(c, s) ==
    LET r == disposeUnguarded(c, s)
    IN [r EXCEPT !.cv.privConversationRecognizerConnection =
                    c.privConversationRecognizerConnection]

dispose(c, s) ==
    IF DisposeGuard(c)
    THEN [cv |-> c, ad |-> s, released |-> 0, threw |-> FALSE]
    ELSE disposeUnguarded(c, s)

\* close(dispose): everything up to the first throw, which the catch swallows
close(c, s, andDispose) ==
    LET c1 == [c EXCEPT !.privIsConnected = FALSE]
        d == IF c1.privConversationRecognizerConnection
             THEN privDisconnect(s) ELSE [s |-> s, threw |-> FALSE]
        r == IF d.threw \/ ~c1.privConversationRecognizer
             THEN [cv |-> c1, ad |-> d.s]
             ELSE [cv |-> [c1 EXCEPT !.privConversationRecognizerConnection = FALSE,
                                     !.privConversationRecognizer = FALSE],
                   ad |-> AdapterDispose(d.s)]
    IN IF andDispose
       THEN LET x == dispose(r.cv, r.ad) IN [cv |-> x.cv, ad |-> x.ad, threw |-> x.threw]
       ELSE [cv |-> r.cv, ad |-> r.ad, threw |-> FALSE]

\* --------------------------------------------------- websocket callbacks
\* what a subscriber of the conversation translator does when it is called
SubscriberThrows == BOOLEAN

\* the subscriber runs before the handler has updated the conversation
SubscriberBeforeUpdate(c, r, subscriberThrows) ==
    IF subscriberThrows /\ r.events # <<>> THEN [r EXCEPT !.cv = c] ELSE r

\* try { updates; subscriber(...) } catch { }: in every handler the subscriber
\* call is the last statement of the try block and the catch is empty, so a
\* throw skips no update. c: the conversation before, r: the handler's result.
CatchSubscriber(c, r, subscriberThrows) == r

onConnected(c) ==
    [cv |-> [c EXCEPT !.privIsConnected = TRUE], events |-> <<Event("sessionStarted", "")>>]

onDisconnected(c, s) ==
    LET r == close(c, s, FALSE)
    IN [cv |-> r.cv, ad |-> r.ad, events |-> <<Event("sessionStopped", "")>>]

\* the canceled event is passed on without closing
onCanceledWithoutClose(c, s) ==
    [cv |-> c, ad |-> s, events |-> <<Event("canceled", "")>>]

onCanceled(c, s) ==
    LET r == close(c, s, FALSE)
    IN [cv |-> r.cv, ad |-> r.ad, events |-> <<Event("canceled", "")>>]

\* ConversationTranslatorCommandTypes: e.value of the event is a boolean for
\* setMute and setUseTTS (e.value here) and a string for the others (e.text)
updated(u, e) ==
    CASE e.key = "changeNickname" -> [u EXCEPT !.displayName = e.text]
      [] e.key = "setUseTTS" -> [u EXCEPT !.useTts = BoolValue(e.value)]
      [] e.key = "setProfanityFiltering" -> [u EXCEPT !.profanity = e.text]
      [] e.key = "setMute" -> [u EXCEPT !.isMuted = e.value]
      [] e.key = "setTranslateToLanguages" -> [u EXCEPT !.translateToLanguages = e.text]
      [] OTHER -> u

\* a participant that is not known is put into the registry
onParticipantUpdateCommandReceivedUnknownToo(c, e) ==
    LET u == IF HasParticipant(c.participants, e.id)
             THEN getParticipant(c.participants, e.id)
             ELSE Participant(e.id, FALSE, FALSE)
    IN [cv |-> [c EXCEPT !.participants = addOrUpdateParticipant(c.participants, updated(u, e))],
        events |-> <<Event("participantsChanged", "Updated")>>]

\* e = [id, key, value, text]
onParticipantUpdateCommandReceived(c, e) ==
    IF HasParticipant(c.participants, e.id)
    THEN LET u == getParticipant(c.participants, e.id)
             v == updated(u, e)
         IN [cv |-> [c EXCEPT !.participants = addOrUpdateParticipant(c.participants, v)],
             events |-> <<Event("participantsChanged", "Updated")>>]
    ELSE [cv |-> c, events |-> <<>>]

\* the value is applied to the host as well
onMuteAllCommandReceivedHostToo(c, e) ==
    [cv |-> [c EXCEPT !.participants =
                [i \in 1..Len(c.participants) |->
                    [c.participants[i] EXCEPT !.isMuted = e.value]]],
     events |-> <<Event("participantsChanged", "Updated")>>]

onMuteAllCommandReceived(c, e) ==
    [cv |-> [c EXCEPT !.participants =
                [i \in 1..Len(c.participants) |->
                    [c.participants[i] EXCEPT !.isMuted =
                        IF c.participants[i].isHost THEN FALSE ELSE e.value]]],
     events |-> <<Event("participantsChanged", "Updated")>>]

onParticipantJoinCommandReceived(c, e) ==
    [cv |-> [c EXCEPT !.participants = addOrUpdateParticipant(c.participants, e.participant)],
     events |-> <<Event("participantsChanged", "JoinedConversation")>>]

\* the event is raised without looking the participant up
onParticipantLeaveCommandReceivedUnchecked(c, e) ==
    [cv |-> [c EXCEPT !.participants = deleteParticipant(c.participants, e.id)],
     events |-> <<Event("participantsChanged", "LeftConversation")>>]

onParticipantLeaveCommandReceived(c, e) ==
    IF HasParticipant(c.participants, e.id)
    THEN [cv |-> [c EXCEPT !.participants = deleteParticipant(c.participants, e.id)],
          events |-> <<Event("participantsChanged", "LeftConversation")>>]
    ELSE [cv |-> c, events |-> <<>>]

\* e = [command |-> "final" | "partial" | "instantMessage"]
onTranslationReceived(c, e) ==
    [cv |-> c,
     events |-> IF e.command = "final" THEN <<Event("transcribed", "")>>
                ELSE IF e.command = "partial" THEN <<Event("transcribing", "")>>
                ELSE IF e.command = "instantMessage" THEN <<Event("textMessageReceived", "")>>
                ELSE <<>>]

\* readiness declared without looking for the local participant, and the
\* session token of the frame dropped
onParticipantsListReceivedAlwaysReady(c, e) ==
    [cv |-> [c EXCEPT !.participants = e.participants, !.privIsReady = TRUE],
     events |-> <<Event("participantsChanged", "JoinedConversation")>>]

\* e = [participants, sessionToken]
onParticipantsListReceived(c, e) ==
    IF e.sessionToken # Undefined /\ ~c.privRoom.defined
    THEN [cv |-> c, events |-> <<>>]      \* TypeError on privRoom.token, caught
    ELSE LET c1 == [c EXCEPT !.privRoom.token =
                        IF e.sessionToken # Undefined THEN e.sessionToken ELSE @,
                             !.participants = e.participants]
             c2 == IF HasMe(c1) THEN [c1 EXCEPT !.privIsReady = TRUE] ELSE c1
         IN [cv |-> c2, events |-> <<Event("participantsChanged", "JoinedConversation")>>]

\* ------------------------------------------------------ command methods
\* ConversationTranslatorConfig.textMessageMaxLength
textMessageMaxLength == 1000

\* a text message, by what the checks look at
Messages == {[len |-> n, blank |-> b] :
                n \in {0, 1, textMessageMaxLength, textMessageMaxLength + 1}, b \in BOOLEAN}
IsNullOrWhitespace(m) == m.len = 0 \/ m.blank

UserIds == Ids \cup {""}

\* Result of a command method:
\*   err   what the failure continuation received, in order
\*   sent  the requests handed to the recognizer (send...Request calls)
\*   cb    how often the success continuation was invoked
\*   wire  the frame was written to an open connection in this call
Result(s, err, sent, cb, wire) ==
    [ad |-> s, err |-> err, sent |-> sent, cb |-> cb, wire |-> wire, ret |-> s.ret]

\* handleError(error, err) inside the catch block
Thrown(s, kind) == Result(s, <<kind>>, <<>>, 0, FALSE)

\* handleCallback(cb, err): a throwing success continuation is reported to err
handleCallback(cbThrows) == IF cbThrows THEN <<"CallbackError">> ELSE <<>>

\* recognizer.send...Request(..., cb, err): the command is handed to
\* sendMessage and the success continuation runs without waiting for the server
Transmit(s, errs, cmd, cbThrows) ==
    LET m == sendMessage(s)
    IN Result(m.s, errs \o handleCallback(cbThrows), <<cmd>>, 1, m.wire)

\* the recognizer reached through optional chaining: no TypeError
PreambleOptionalChaining(c, s) ==
    IF c.privIsDisposed THEN "ObjectDisposed"
    ELSE IF c.privConversationRecognizer /\ RecognizerIsDisposed(s) THEN "ObjectDisposed"
    ELSE ""

\* the guards every command method starts with; "" when none throws
Preamble(c, s) ==
    IF c.privIsDisposed THEN "ObjectDisposed"
    ELSE IF ~c.privConversationRecognizer THEN "TypeError"
    ELSE IF RecognizerIsDisposed(s) THEN "ObjectDisposed"
    ELSE ""

HostCommand(c, s, cmd, cbThrows) ==
    IF Preamble(c, s) # "" THEN Thrown(s, Preamble(c, s))
    ELSE IF ~c.privRoom.defined THEN Thrown(s, "ArgumentNull")
    ELSE Transmit(s, IF ~canSendAsHost(c) THEN <<"PermissionDenied">> ELSE <<>>,
                  cmd, cbThrows)

lockConversationAsync(c, s, cbThrows) == HostCommand(c, s, "SetLockState:true", cbThrows)

unlockConversationAsync(c, s, cbThrows) == HostCommand(c, s, "SetLockState:false", cbThrows)

muteAllParticipantsAsync(c, s, cbThrows) == HostCommand(c, s, "SetMuteAll:true", cbThrows)

unmuteAllParticipantsAsync(c, s, cbThrows) == HostCommand(c, s, "SetMuteAll:false", cbThrows)

MuteCommand(c, s, userId, cmd, cbThrows) ==
    IF Preamble(c, s) # "" THEN Thrown(s, Preamble(c, s))
    ELSE IF userId = "" THEN Thrown(s, "ArgumentNull")
    ELSE IF ~c.privRoom.defined THEN Thrown(s, "ArgumentNull")
    ELSE LET e1 == IF ~canSend(c) THEN <<"PermissionDenied">> ELSE <<>>
         IN IF ~HasMe(c)
            THEN Result(s, e1 \o <<"TypeError">>, <<>>, 0, FALSE)   \* this.me throws
            ELSE LET e2 == IF ~Me(c).isHost /\ Me(c).id # userId
                           THEN <<"PermissionDenied">> ELSE <<>>
                     e3 == IF ~HasParticipant(c.participants, userId)
                           THEN <<"InvalidParticipant">> ELSE <<>>
                 IN Transmit(s, e1 \o e2 \o e3, cmd, cbThrows)

muteParticipantAsync(c, s, userId, cbThrows) == MuteCommand(c, s, userId, "SetMute:true", cbThrows)

unmuteParticipantAsync(c, s, userId, cbThrows) == MuteCommand(c, s, userId, "SetMute:false", cbThrows)

removeParticipantAsync(c, s, userId, cbThrows) ==
    IF Preamble(c, s) # "" THEN Thrown(s, Preamble(c, s))
    ELSE IF ~c.privRoom.defined THEN Thrown(s, "ArgumentNull")
    ELSE LET e1 == IF ~canSendAsHost(c) THEN <<"PermissionDenied">> ELSE <<>>
         IN IF userId = "" THEN Result(s, e1 \o <<"ArgumentNull">>, <<>>, 0, FALSE)
            ELSE Transmit(s, e1 \o (IF ~HasParticipant(c.participants, userId)
                                    THEN <<"InvalidParticipant">> ELSE <<>>),
                          "Eject", cbThrows)

sendTextMessageAsync(c, s, message, cbThrows) ==
    IF Preamble(c, s) # "" THEN Thrown(s, Preamble(c, s))
    ELSE IF IsNullOrWhitespace(message) THEN Thrown(s, "ArgumentNull")
    ELSE IF ~c.privRoom.defined THEN Thrown(s, "ArgumentNull")
    ELSE Transmit(s, (IF ~canSend(c) THEN <<"PermissionDenied">> ELSE <<>>)
                     \o (IF message.len > textMessageMaxLength
                         THEN <<"InvalidArgs">> ELSE <<>>),
                  "Message", cbThrows)

\* --------------------------------------------------------------- frames
RECURSIVE ListsOfLen(_)
ListsOfLen(n) ==
    IF n = 0 THEN {<<>>}
    ELSE {Append(ps, q) : ps \in ListsOfLen(n - 1), q \in Participants}

DistinctIds(ps) == Cardinality(IdsOf(ps)) = Len(ps)

\* the lists a participantlist frame may carry: each id at most once
ParticipantLists ==
    {ps \in UNION {ListsOfLen(n) : n \in 0..Cardinality(Ids)} : DistinctIds(ps)}

Texts == {Undefined, "", "hi"}

\* type: message.conversationMessageType; command: the command name of a
\* command frame, "speech" for the payload of a partial / final frame
Frame(command, participants, token, id, value, text) ==
    [type |-> "command", command |-> command, participants |-> participants,
     token |-> token, id |-> id, value |-> value, text |-> text]

SpeechType(isFinal) == IF isFinal THEN "final" ELSE "partial"

\* frames that make the read continuation throw before it reaches a case:
\* a command, speech or text frame whose body fromJSON cannot parse, and a
\* command frame without a command name (commandPayload.command.toLowerCase())
MalformedFrames == {"unparsable", "nocommand"}

\* the frames the service may push: type tag / command name, payload
Frames ==
    {Frame("participantlist", ps, t, "", FALSE, "") :
        ps \in ParticipantLists, t \in {Undefined, "t1"}}
    \cup {Frame("setmute", <<>>, "", i, v, "") : i \in Ids, v \in BOOLEAN}
    \cup {Frame("setmuteall", <<>>, "", "", v, "") : v \in BOOLEAN}
    \cup {Frame("joinsession", <<q>>, "", q.id, FALSE, "") : q \in Participants}
    \cup {Frame("leavesession", <<>>, "", i, FALSE, "") : i \in Ids}
    \cup {[Frame("speech", <<>>, "", "", isFinal, t) EXCEPT !.type = SpeechType(isFinal)] :
              isFinal \in BOOLEAN, t \in Texts}
    \cup {Frame(c, <<>>, "", "", FALSE, "") : c \in MalformedFrames}

\* the length check on finals is missing
SpeechFrameNoLengthCheck(c, f) ==
    LET k == IF f.value THEN "final" ELSE "partial"
        r == onTranslationReceived(c, [command |-> k])
    IN [cv |-> r.cv, events |-> <<Event("translationReceived", k)>> \o r.events]

\* case "partial" / "final": f.value is speechPayload.isFinal, f.text the
\* recognized text; translationReceived is raised, the conversation handles it
SpeechFrame(c, f) ==
    IF f.value
    THEN IF f.text # Undefined /\ f.text # ""
         THEN LET r == onTranslationReceived(c, [command |-> "final"])
              IN [cv |-> r.cv, events |-> <<Event("translationReceived", "final")>> \o r.events]
         ELSE [cv |-> c, events |-> <<>>]
    ELSE LET r == onTranslationReceived(c, [command |-> "partial"])
         IN [cv |-> r.cv, events |-> <<Event("translationReceived", "partial")>> \o r.events]

\* the continuation throws outside every try block
Throws(f) == f.command \in MalformedFrames

\* frames whose type tag and command name are not in lower case
MixedCaseFrames ==
    { [Frame("SetMuteAll", <<>>, "", "", TRUE, "") EXCEPT !.type = "Command"],
      [Frame("LEAVESESSION", <<>>, "", "A", FALSE, "") EXCEPT !.type = "INFO"],
      [Frame("speech", <<>>, "", "", TRUE, "hi") EXCEPT !.type = "FINAL"] }

\* frames no case of the two switches names: an unknown command, the
\* disconnectsession command (its case does nothing), an unknown type tag
UnrecognizedFrames ==
    { Frame("unknowncommand", <<>>, "", "", TRUE, ""),
      Frame("disconnectsession", <<>>, "", "A", FALSE, ""),
      [Frame("", <<>>, "", "", FALSE, "") EXCEPT !.type = "unknowntype"] }

AllFrames == Frames \cup MixedCaseFrames \cup UnrecognizedFrames

\* the names as they are written in the frame
asWritten(name) == name

\* String.prototype.toLowerCase on the names the frames carry
toLowerCase(name) ==
    CASE name = "Command" -> "command"
      [] name = "INFO" -> "info"
      [] name = "FINAL" -> "final"
      [] name = "SetMuteAll" -> "setmuteall"
      [] name = "LEAVESESSION" -> "leavesession"
      [] OTHER -> name

\* the participant-attribute commands and the key each is passed on with
AttributeKeys ==
    [c \in {"changenickname", "setmute", "setusetts", "setprofanityfiltering",
            "settranslatetolanguages"} |->
        CASE c = "changenickname" -> "changeNickname"
          [] c = "setmute" -> "setMute"
          [] c = "setusetts" -> "setUseTTS"
          [] c = "setprofanityfiltering" -> "setProfanityFiltering"
          [] c = "settranslatetolanguages" -> "setTranslateToLanguages"]

\* The switch of receiveConversationMessageOverride on one frame, with the
\* conversation's handlers attached: [cv, events]
Dispatch(c, f) ==
    LET type == toLowerCase(f.type)
        command == toLowerCase(f.command)
    IN  IF type \in {"info", "participant_command", "command"}
        THEN IF command = "participantlist"
             THEN onParticipantsListReceived(c, [participants |-> f.participants,
                      sessionToken |-> f.token])
             ELSE IF command \in DOMAIN AttributeKeys
             THEN onParticipantUpdateCommandReceived(c,
                      [id |-> f.id, key |-> AttributeKeys[command],
                       value |-> f.value, text |-> f.text])
             ELSE IF command = "setmuteall"
             THEN onMuteAllCommandReceived(c, [value |-> f.value])
             ELSE IF command = "joinsession"
             THEN onParticipantJoinCommandReceived(c, [participant |-> f.participants[1]])
             ELSE IF command = "leavesession"
             THEN onParticipantLeaveCommandReceived(c, [id |-> f.id])
             ELSE [cv |-> c, events |-> <<>>]
        ELSE IF type \in {"partial", "final"}
        THEN SpeechFrame(c, f)
        ELSE [cv |-> c, events |-> <<>>]

\* ------------------------------------------------------------- the steps
NoFrame == Frame("", <<>>, "", "", FALSE, "")

\* arg: the user id, message, response or result the step was called with,
\* always a record
NoArg == [none |-> TRUE]

\* thrown: a subscriber of the conversation translator threw in this step
\* ret: the promise a connect / fetch-connection call of the step returned
OutRet(op, events, sent, err, cb, wire, frame, ret) ==
    [op |-> op, arg |-> NoArg, events |-> events, sent |-> sent, err |-> err, cb |-> cb,
     wire |-> wire, frame |-> frame, ret |-> ret, thrown |-> FALSE]

Out(op, events, sent, err, cb, wire, frame) ==
    OutRet(op, events, sent, err, cb, wire, frame, NoPromise)

HistInit == [disposeCalls |-> 0, released |-> 0, link |-> "none", leaves |-> 0]

Init ==
    /\ ad = AdapterInit
    /\ cv = ConversationInit
    /\ out = Out("init", <<>>, <<>>, <<>>, 0, FALSE, NoFrame)
    /\ hist = HistInit

\* createConversationAsync / joinConversationAsync with a successful response
createConversationAsync(pid) ==
    /\ cv' = [cv EXCEPT !.privRoom = Room(pid, "t0")]
    /\ out' = Out("createConversationAsync",  <<>>, <<>>,
                  IF cv.privConversationRecognizer THEN <<"PermissionDenied">> ELSE <<>>,
                  1, FALSE, NoFrame)
    /\ UNCHANGED <<ad, hist>>

\* recognizer.connect(token, cb, err) on the adapter of a new recognizer
RecognizerConnect(s) == conversationConnectImpl(s, FALSE)

startConversationAsync ==
    /\ LET e1 == IF cv.privConversationRecognizer THEN <<"PermissionDenied">> ELSE <<>>
       IN IF ~cv.privRoom.defined
          THEN /\ out' = Out("startConversationAsync", <<>>, <<>>, e1 \o <<"ArgumentNull">>,
                             0, FALSE, NoFrame)
               /\ UNCHANGED <<ad, cv, hist>>
          ELSE /\ cv' = [cv EXCEPT !.meId = cv.privRoom.participantId,
                                   !.privConversationRecognizer = TRUE,
                                   !.privConversationRecognizerConnection = TRUE]
               /\ ad' = Clean(RecognizerConnect(AdapterInit))
               \* no connection event of the new recognizer has been handled
               /\ hist' = [hist EXCEPT !.link =
                              IF @ \in {"disconnected", "canceled", "closed"}
                              THEN "none" ELSE @]
               /\ out' = Out("startConversationAsync", <<>>, <<"connect">>, e1, 0, FALSE, NoFrame)

\* result.error of a failed credential fetch
AuthError == "auth error"

\* the credential source answers the fetch of attempt a, and the error of
\* the answer is not looked at
AuthCompletedIgnoringError(a, isError) ==
    /\ ad.promise[a] = "auth"
    /\ ad' = [ad EXCEPT !.promise[a] = "opening", !.connection[a] = "Connecting"]
    /\ out' = [Out("AuthCompleted", <<>>, <<>>, <<>>, 0, FALSE, NoFrame)
                   EXCEPT !.arg = [isError |-> isError]]
    /\ UNCHANGED <<cv, hist>>

\* the credential source answers the fetch of attempt a
AuthCompleted(a, isError) ==
    /\ ad.promise[a] = "auth"
    /\ ad' = IF isError
             THEN Settle([ad EXCEPT !.error[a] = AuthError], a, "rejected")
             ELSE [ad EXCEPT !.promise[a] = "opening", !.connection[a] = "Connecting"]
    /\ out' = [Out("AuthCompleted", <<>>, <<>>, <<>>, 0, FALSE, NoFrame)
                   EXCEPT !.arg = [isError |-> isError]]
    /\ UNCHANGED <<cv, hist>>

\* the message of the error a refused open rejects the attempt with
UnableToContactServer(statusCode) ==
    "Unable to contact server. StatusCode: " \o ToString(statusCode)

\* the branch that raises connectionOpened, were it taken for 403 too
IsOpenedOrForbidden(statusCode) == statusCode \in {200, 403}

\* response.statusCode === 200
IsOpened(statusCode) == statusCode = 200

\* the socket answers connection.open() of attempt a
OpenResponse(a, statusCode, subscribers) ==
    /\ ad.promise[a] = "opening"
    /\ IF IsOpened(statusCode)
       THEN \E t \in subscribers :
            LET attached == cv.privConversationRecognizerConnection
                c == IF attached THEN CatchSubscriber(cv, onConnected(cv), t)
                     ELSE [cv |-> cv, events |-> <<>>]
            IN /\ ad' = Settle([ad EXCEPT !.connection[a] = "Connected"], a, "resolved")
               /\ cv' = c.cv
               /\ hist' = IF attached THEN [hist EXCEPT !.link = "connected"] ELSE hist
               /\ out' = [Out("OpenResponse", c.events \o <<Event("connectionOpened", "")>>,
                              <<>>, <<>>, 0, FALSE, NoFrame)
                          EXCEPT !.thrown = t /\ attached,
                                 !.arg = [statusCode |-> statusCode]]
       ELSE IF statusCode = 403 /\ ad.auth[a] = "fetch"
       THEN LET r == conversationConnectImpl([ad EXCEPT !.connection[a] = "Disconnected"], TRUE)
            IN /\ ~r.overflow
               /\ ad' = Clean([r EXCEPT !.promise[a] = IF r.ret = a THEN "self" ELSE "follow"])
               /\ out' = [Out("OpenResponse403", <<>>, <<>>, <<>>, 0, FALSE, NoFrame)
                              EXCEPT !.arg = [statusCode |-> statusCode]]
               /\ UNCHANGED <<cv, hist>>
       ELSE /\ ad' = Settle([ad EXCEPT !.connection[a] = "Disconnected",
                                       !.error[a] = UnableToContactServer(statusCode)],
                            a, "rejected")
            /\ out' = [Out("OpenResponse", <<>>, <<>>, <<>>, 0, FALSE, NoFrame)
                           EXCEPT !.arg = [statusCode |-> statusCode]]
            /\ UNCHANGED <<cv, hist>>

\* the read of loop l resolves with frame f
DeliverFrame(l, f, subscribers) ==
    /\ ad.loop[l] = "read"
    /\ ad.connection[ad.loopOn[l]] = "Connected"
    /\ IF ad.privConversationIsDisposed \/ ad.terminateMessageLoop
       THEN /\ ad' = [ad EXCEPT !.loop[l] = "done"]
            /\ out' = Out("DeliverFrame", <<>>, <<>>, <<>>, 0, FALSE, f)
            /\ UNCHANGED <<cv, hist>>
       ELSE IF Throws(f)
       \* the throw leaves the continuation before the recursive call
       THEN /\ ad' = [ad EXCEPT !.loop[l] = "ended"]
            /\ out' = Out("DeliverFrame", <<>>, <<>>, <<>>, 0, FALSE, f)
            /\ UNCHANGED <<cv, hist>>
       ELSE \E t \in subscribers :
            LET d == CatchSubscriber(cv, Dispatch(cv, f), t)
                r == receiveConversationMessageOverride(ad, l)
            IN /\ ~r.overflow
               /\ ad' = Clean(r)
               /\ cv' = d.cv
               /\ out' = [Out("DeliverFrame", d.events, <<>>, <<>>, 0, FALSE, f)
                          EXCEPT !.thrown = t /\ d.events # <<>>]
               /\ UNCHANGED hist

\* the read of loop l resolves without a frame: the connection was closed
ReadEnds(l) ==
    /\ ad.loop[l] = "read"
    /\ ad.connection[ad.loopOn[l]] = "Disconnected"
    /\ IF ad.privConversationIsDisposed \/ ad.terminateMessageLoop
       THEN ad' = [ad EXCEPT !.loop[l] = "done"]
       ELSE LET r == receiveConversationMessageOverride(ad, l)
            IN ~r.overflow /\ ad' = Clean(r)
    /\ out' = Out("ReadEnds", <<>>, <<>>, <<>>, 0, FALSE, NoFrame)
    /\ UNCHANGED <<cv, hist>>

\* the service or the network closes the open connection of attempt a; the
\* connection raises its closed event
ServerDrop(a) ==
    /\ ad.connection[a] = "Connected"
    /\ ad' = [ad EXCEPT !.connection[a] = "Disconnected", !.closedEvent[a] = TRUE]
    /\ out' = Out("ServerDrop", <<>>, <<>>, <<>>, 0, FALSE, NoFrame)
    /\ UNCHANGED <<cv, hist>>

\* the closed event reaches onDisconnected while the conversation's
\* Connection handle is attached
ConnectionClosed(a, subscribers) ==
    /\ ad.closedEvent[a]
    /\ LET s == [ad EXCEPT !.closedEvent[a] = FALSE]
       IN IF cv.privConversationRecognizerConnection
          THEN \E t \in subscribers :
               LET r == CatchSubscriber(cv, onDisconnected(cv, s), t)
               IN /\ ad' = Clean(r.ad)
                  /\ cv' = r.cv
                  /\ hist' = [hist EXCEPT !.link = "disconnected"]
                  /\ out' = [Out("ConnectionClosed", r.events, <<>>, <<>>, 0, FALSE, NoFrame)
                             EXCEPT !.thrown = t]
          ELSE /\ ad' = s
               /\ out' = Out("ConnectionClosed", <<>>, <<>>, <<>>, 0, FALSE, NoFrame)
               /\ UNCHANGED <<cv, hist>>

\* the application calls connect again on the recognizer it already has
connect ==
    /\ cv.privConversationRecognizer
    /\ LET r == RecognizerConnect(ad)
       IN /\ ~r.overflow
          /\ ad' = Clean(r)
          /\ out' = OutRet("connect", <<>>, <<>>, <<>>, 0, FALSE, NoFrame, r.ret)
    /\ UNCHANGED <<cv, hist>>

\* the application calls disconnect on the recognizer it holds
\* (disconnectOverride = privDisconnect); a TypeError escapes to the caller
disconnect ==
    /\ cv.privConversationRecognizer
    /\ LET r == privDisconnect(ad)
       IN /\ ad' = Clean(r.s)
          /\ out' = Out("disconnect", <<>>, <<>>,
                        IF r.threw THEN <<"TypeError">> ELSE <<>>, 0, FALSE, NoFrame)
    /\ UNCHANGED <<cv, hist>>

\* cancelRecognition, invoked by the recognizer base on a failure
cancelRecognition(subscribers) ==
    /\ cv.privConversationRecognizer
    /\ \E t \in subscribers :
       LET r == CatchSubscriber(cv, onCanceled(cv, [ad EXCEPT !.terminateMessageLoop = TRUE]), t)
       IN /\ ad' = Clean(r.ad)
          /\ cv' = r.cv
          /\ hist' = [hist EXCEPT !.link = "canceled"]
          /\ out' = [Out("cancelRecognition", r.events, <<>>, <<>>, 0, FALSE, NoFrame)
                     EXCEPT !.thrown = t]

endConversationAsync(cbThrows) ==
    /\ LET r == close(cv, ad, TRUE)
       IN /\ ad' = Clean(r.ad)
          /\ cv' = r.cv
          /\ out' = Out("endConversationAsync", <<>>, <<>>,
                        IF r.threw THEN <<"TypeError">> ELSE handleCallback(cbThrows),
                        IF r.threw THEN 0 ELSE 1, FALSE, NoFrame)
    /\ hist' = [hist EXCEPT !.link = "closed"]

\* Contracts.throwIfNullOrWhitespace on a token
IsNullOrWhitespaceToken(token) == token \in {Undefined, ""}

\* deleteConversationAsync: the leave request is issued with the token of
\* the room (out.arg), then dispose()
deleteConversationAsync ==
    IF ~cv.privRoom.defined
    THEN /\ out' = Out("deleteConversationAsync", <<>>, <<>>, <<"TypeError">>, 0, FALSE, NoFrame)
         /\ UNCHANGED <<ad, cv, hist>>
    ELSE IF IsNullOrWhitespaceToken(cv.privRoom.token)
    THEN /\ out' = Out("deleteConversationAsync", <<>>, <<>>, <<"ArgumentNull">>, 0, FALSE, NoFrame)
         /\ UNCHANGED <<ad, cv, hist>>
    ELSE LET r == dispose(cv, ad)
         IN /\ hist.leaves < MaxLeave
            /\ ad' = Clean(r.ad)
            /\ cv' = r.cv
            /\ hist' = [hist EXCEPT !.released = @ + r.released, !.leaves = @ + 1]
            /\ out' = [Out("deleteConversationAsync", <<>>, <<"leave">>,
                               IF r.threw THEN <<"TypeError">> ELSE <<>>,
                               0, FALSE, NoFrame)
                           EXCEPT !.arg = [token |-> cv.privRoom.token]]

\* the answers to a leave request
LeaveResponses == {[ok |-> st = 200, status |-> st] : st \in {200, 400, 500}}

\* the callback leave() hands to request(): a non-success response is ignored
leaveResponse(response, cbThrows) == [cb |-> 1, err |-> handleCallback(cbThrows)]

\* the response to a leave request arrives
LeaveResponse(response, cbThrows) ==
    /\ hist.leaves > 0
    /\ LET r == leaveResponse(response, cbThrows)
       IN  out' = [Out("leaveResponse", <<>>, <<>>, r.err, r.cb, FALSE, NoFrame)
                       EXCEPT !.arg = response]
    /\ hist' = [hist EXCEPT !.leaves = @ - 1]
    /\ UNCHANGED <<ad, cv>>

Dispose ==
    /\ hist.disposeCalls < MaxDispose
    /\ LET r == dispose(cv, ad)
       IN /\ ad' = Clean(r.ad)
          /\ cv' = r.cv
          /\ hist' = [hist EXCEPT !.disposeCalls = @ + 1,
                                  !.released = @ + r.released]
          /\ out' = Out("dispose", <<>>, <<>>,
                        IF r.threw THEN <<"TypeError">> ELSE <<>>, 0, FALSE, NoFrame)

\* a command method is called; cbThrows: the success continuation throws
\* a command method that applies a mute-all request to the registry itself
CommandAppliedLocally(op, arg, r) ==
    /\ ~r.ad.overflow
    /\ ad' = Clean(r.ad)
    /\ out' = [OutRet(op, <<>>, r.sent, r.err, r.cb, r.wire, NoFrame, r.ret) EXCEPT !.arg = arg]
    /\ cv' = IF op = "muteAllParticipantsAsync" /\ r.sent # <<>>
             THEN onMuteAllCommandReceived(cv, [value |-> TRUE]).cv ELSE cv
    /\ UNCHANGED hist

Command(op, arg, r) ==
    /\ ~r.ad.overflow
    /\ ad' = Clean(r.ad)
    /\ out' = [OutRet(op, <<>>, r.sent, r.err, r.cb, r.wire, NoFrame, r.ret) EXCEPT !.arg = arg]
    /\ UNCHANGED <<cv, hist>>

Lock(cbThrows) == Command("lockConversationAsync", NoArg, lockConversationAsync(cv, ad, cbThrows))
Unlock(cbThrows) == Command("unlockConversationAsync", NoArg, unlockConversationAsync(cv, ad, cbThrows))
MuteAll(cbThrows) == Command("muteAllParticipantsAsync", NoArg, muteAllParticipantsAsync(cv, ad, cbThrows))
UnmuteAll(cbThrows) == Command("unmuteAllParticipantsAsync", NoArg, unmuteAllParticipantsAsync(cv, ad, cbThrows))
Mute(u, cbThrows) == Command("muteParticipantAsync", [userId |-> u], muteParticipantAsync(cv, ad, u, cbThrows))
Unmute(u, cbThrows) == Command("unmuteParticipantAsync", [userId |-> u], unmuteParticipantAsync(cv, ad, u, cbThrows))
Remove(u, cbThrows) == Command("removeParticipantAsync", [userId |-> u], removeParticipantAsync(cv, ad, u, cbThrows))
SendText(m, cbThrows) == Command("sendTextMessageAsync", m, sendTextMessageAsync(cv, ad, m, cbThrows))

\* the application and the environment of one conversation
Lifecycle(authErrors, statuses, subscribers) ==
    \/ \E pid \in LocalIds : createConversationAsync(pid)
    \/ startConversationAsync
    \/ \E a \in Attempts, isError \in authErrors : AuthCompleted(a, isError)
    \/ \E a \in Attempts, st \in statuses : OpenResponse(a, st, subscribers)
    \/ \E a \in Attempts : ServerDrop(a)
    \/ \E a \in Attempts : ConnectionClosed(a, subscribers)
    \/ cancelRecognition(subscribers)
    \/ \E t \in {FALSE} : endConversationAsync(t)

\* a loop finds its connection closed and fetches the connection again
Reconnect == \E l \in Attempts : ReadEnds(l)

Receive(frames, subscribers) ==
    \E l \in Attempts, f \in frames : DeliverFrame(l, f, subscribers)

Commands(users, messages, cbs) ==
    \/ \E t \in cbs : Lock(t)
    \/ \E t \in cbs : Unlock(t)
    \/ \E t \in cbs : MuteAll(t)
    \/ \E t \in cbs : UnmuteAll(t)
    \/ \E u \in users, t \in cbs : Mute(u, t)
    \/ \E u \in users, t \in cbs : Unmute(u, t)
    \/ \E u \in users, t \in cbs : Remove(u, t)
    \/ \E m \in messages, t \in cbs : SendText(m, t)

\* a host list, two guest lists, a mute of the local participant and a
\* speech frame
FewFrames ==
    {f \in Frames :
        \/ f.command = "participantlist" /\ f.token = Undefined
           /\ f.participants \in {<<Participant("A", TRUE, FALSE), Participant("B", FALSE, FALSE)>>,
                                  <<Participant("B", TRUE, FALSE)>>,
                                  <<Participant("A", TRUE, FALSE), Participant("B", FALSE, TRUE)>>}
        \/ f.command = "setmute" /\ f.id = "B" /\ f.value
        \/ f.command = "speech" /\ f.value /\ f.text = "hi"}

\* a list that makes the local participant the host, and a speech frame
ConnFrames ==
    {f \in Frames :
        \/ f.command = "participantlist" /\ f.token = Undefined
           /\ f.participants = <<Participant("B", TRUE, FALSE)>>
        \/ f.command = "speech" /\ f.value /\ f.text = "hi"}

FewMessages == {m \in Messages : ~m.blank /\ m.len >= textMessageMaxLength}

OneMessage == {m \in Messages : ~m.blank /\ m.len = 1}

\* the session: commands, disposal and the frames that decide the gates
Next ==
    \/ Lifecycle({FALSE}, {200}, {FALSE})
    \/ Receive(FewFrames, {FALSE})
    \/ Commands({"A", "B"}, FewMessages, {FALSE})
    \/ deleteConversationAsync
    \/ \E response \in LeaveResponses, t \in {FALSE} : LeaveResponse(response, t)
    \/ Dispose

Spec == Init /\ [][Next]_vars

\* the commands: every command method in every state of the session, the
\* application disposing of the conversation in between
NextCmd ==
    \/ Lifecycle({FALSE}, {200}, {FALSE})
    \/ Receive(FewFrames, {FALSE})
    \/ Commands({"A", "B"}, FewMessages, {FALSE})
    \/ Dispose

SpecCmd == Init /\ [][NextCmd]_vars

\* the end of the session: leaving the room and disposing, in any order
NextEnd ==
    \/ Lifecycle({FALSE}, {200}, {FALSE})
    \/ Receive(FewFrames, {FALSE})
    \/ deleteConversationAsync
    \/ \E response \in LeaveResponses, t \in {FALSE} : LeaveResponse(response, t)
    \/ Dispose

SpecEnd == Init /\ [][NextEnd]_vars

\* the tokens the service may put into a participantlist frame
ServerTokens == {Undefined, "", "t1", "t2"}

\* lists with and without the local participant under every token, and
\* frames of the other kinds
TokenFrames ==
    {Frame("participantlist", ps, t, "", FALSE, "") :
        ps \in {<<Participant("B", TRUE, FALSE)>>, <<Participant("A", TRUE, FALSE)>>},
        t \in ServerTokens}
    \cup {f \in Frames :
            \/ f.command = "setmute" /\ f.id = "B" /\ f.value
            \/ f.command = "joinsession" /\ f.participants = <<Participant("A", FALSE, FALSE)>>
            \/ f.command = "leavesession" /\ f.id = "A"
            \/ f.command = "speech" /\ f.value /\ f.text = "hi"}

\* the session token: the service rotates it while the application may
\* leave the room at any time
NextTok ==
    \/ Lifecycle({FALSE}, {200}, {FALSE})
    \/ Receive(TokenFrames, {FALSE})
    \/ deleteConversationAsync
    \/ \E response \in LeaveResponses, t \in {FALSE} : LeaveResponse(response, t)

SpecTok == Init /\ [][NextTok]_vars

\* the connection: every answer of the credential source and of the socket,
\* and the loop's own reconnect after a loss
NextConn ==
    \/ Lifecycle(BOOLEAN, Statuses, {FALSE})
    \/ Reconnect
    \/ connect
    \/ Receive(ConnFrames, {FALSE})
    \/ \E m \in OneMessage, t \in {FALSE} : SendText(m, t)

SpecConn == Init /\ [][NextConn]_vars

\* the credential source answers every fetch and the socket answers every
\* open: an answer that can arrive again and again does arrive
Answers ==
    \A a \in Attempts :
        /\ SF_vars(\E isError \in BOOLEAN : AuthCompleted(a, isError))
        /\ SF_vars(\E st \in Statuses : OpenResponse(a, st, {FALSE}))

SpecLive == Init /\ [][NextConn]_vars /\ Answers

\* the recognizer's connection methods: the application disconnects and
\* connects again while the loop of the start is reading
NextLink ==
    \/ Lifecycle({FALSE}, {200}, {FALSE})
    \/ Reconnect
    \/ connect
    \/ disconnect
    \/ Receive(ConnFrames, {FALSE})

SpecLink == Init /\ [][NextLink]_vars

\* the registry: every frame the service may push on the connection of a start
NextReg == Lifecycle({FALSE}, {200}, {FALSE}) \/ Receive(AllFrames, {FALSE})

SpecReg == Init /\ [][NextReg]_vars

\* the participant-attribute frames, for a known and for an unknown id, and
\* the lists, joins and leaves that decide who is known
AttributeFrames ==
    {Frame("changenickname", <<>>, "", i, FALSE, "m") : i \in Ids}
    \cup {Frame(c, <<>>, "", i, v, "") : c \in {"setmute", "setusetts"}, i \in Ids, v \in BOOLEAN}
    \cup {Frame("setprofanityfiltering", <<>>, "", i, FALSE, "raw") : i \in Ids}
    \cup {Frame("settranslatetolanguages", <<>>, "", i, FALSE, "de") : i \in Ids}
    \cup {f \in Frames :
            \/ f.command = "participantlist" /\ f.token = Undefined
               /\ f.participants \in {<<Participant("A", TRUE, FALSE), Participant("B", FALSE, FALSE)>>,
                                      <<Participant("B", TRUE, FALSE)>>}
            \/ f.command = "leavesession" /\ f.id = "A"}

\* the attributes: the service changes attributes of participants
NextAttr == Lifecycle({FALSE}, {200}, {FALSE}) \/ Receive(AttributeFrames, {FALSE})

SpecAttr == Init /\ [][NextAttr]_vars

\* the subscribers: any handler the application has attached may throw
NextSub ==
    Lifecycle({FALSE}, {200}, SubscriberThrows) \/ Receive(AllFrames, SubscriberThrows)

SpecSub == Init /\ [][NextSub]_vars

\* ---------------------------------------------------- directory client
\* ConversationManager: the HTTP client that creates, joins and leaves rooms.
Values == {Undefined, "", " ", "x"}      \* an unset, empty, blank or given property
Credentials == {Undefined, "", "x"}      \* an unset, empty or given credential
CorrelationIds == {Undefined, "c"}
ConversationCodes == {Undefined, "", "code"}

\* the properties createOrJoin reads from its argument
DirectoryArgs ==
    [ languageCode : Values, nickname : Values, endpointHost : Values,
      correlationId : CorrelationIds, subscriptionKey : Credentials,
      subscriptionRegion : Credentials, authToken : Credentials ]

\* PropertyCollection.getProperty(key, def)
getProperty(v, def) == IF v = Undefined THEN def ELSE v

\* Contracts.throwIfNullOrWhitespace / Contracts.throwIfNullOrUndefined throw
ThrowsIfNullOrWhitespace(v) == v \in {Undefined, "", " "}
ThrowsIfNullOrUndefined(v) == v = Undefined

\* a value an `if (v)` takes for true
Truthy(v) == v \notin {Undefined, ""}

NoRequest == [issued |-> FALSE, method |-> "", roomId |-> Undefined, headers |-> {}]
Request(method, roomId, headers) ==
    [issued |-> TRUE, method |-> method, roomId |-> roomId, headers |-> headers]

\* the request createOrJoin issues, or the error its catch block reports
ConfigurationFailure == [err |-> <<"ConfigurationError">>, request |-> NoRequest]
Issue(roomId, headers) == [err |-> <<>>, request |-> Request("post", roomId, headers)]

createOrJoin(args, conversationCode) ==
    LET languageCode == getProperty(args.languageCode, "en-US")
        endpointHost == getProperty(args.endpointHost, "dev.microsofttranslator.com")
        headers == (IF Truthy(args.correlationId) THEN {"correlationId"} ELSE {})
                   \cup {"clientAppId"}
    IN  IF \/ ThrowsIfNullOrWhitespace(languageCode)
           \/ ThrowsIfNullOrWhitespace(args.nickname)
           \/ ThrowsIfNullOrWhitespace(endpointHost)
        THEN ConfigurationFailure
        ELSE IF conversationCode # Undefined
        THEN Issue(conversationCode, headers)
        ELSE IF ThrowsIfNullOrUndefined(args.subscriptionRegion)
        THEN ConfigurationFailure
        ELSE IF Truthy(args.subscriptionKey)
        THEN Issue(Undefined, headers \cup {"subscriptionRegion", "subscriptionKey"})
        ELSE IF Truthy(args.authToken)
        THEN Issue(Undefined, headers \cup {"subscriptionRegion", "authorization"})
        ELSE IF ThrowsIfNullOrUndefined(args.subscriptionKey)
        THEN ConfigurationFailure
        ELSE Issue(Undefined, headers \cup {"subscriptionRegion"})

\* what the service may answer: the body of a success response is a full
\* descriptor, the JSON text null, an object without fields, or no JSON
Bodies == {"room", "null", "empty", "unparsable"}
Responses ==
    {[ok |-> st = 200, status |-> st, data |-> b] : st \in {200, 400, 500}, b \in Bodies}

\* the callback createOrJoin hands to request(): cb is the number of calls of
\* the success continuation, room what it was called with; escaped: the
\* callback ended by an exception nobody catches
createOrJoinResponse(response) ==
    IF ~response.ok
    THEN [cb |-> 0, room |-> "none",
          err |-> <<[kind |-> "ServiceError", status |-> response.status]>>,
          escaped |-> FALSE]
    ELSE IF response.data = "unparsable"
    THEN [cb |-> 0, room |-> "none", err |-> <<>>, escaped |-> TRUE]
    ELSE [cb |-> 1, room |-> response.data, err |-> <<>>, escaped |-> FALSE]

NoResponse == [ok |-> FALSE, status |-> 0, data |-> ""]

\* one call of createOrJoin, with any configuration
CreateOrJoin ==
    /\ out.op = "init"
    /\ \E args \in DirectoryArgs, conversationCode \in ConversationCodes :
          LET r == createOrJoin(args, conversationCode)
          IN  out' = [op |-> "createOrJoin", args |-> args,
                      conversationCode |-> conversationCode,
                      request |-> r.request, response |-> NoResponse,
                      cb |-> 0, room |-> "none", err |-> r.err, escaped |-> FALSE]
    /\ UNCHANGED <<ad, cv, hist>>

\* the response to the request of the call arrives
CreateOrJoinResponse ==
    /\ out.op = "createOrJoin"
    /\ out.request.issued
    /\ \E response \in Responses :
          LET r == createOrJoinResponse(response)
          IN  out' = [out EXCEPT !.op = "createOrJoinResponse", !.response = response,
                                 !.cb = r.cb, !.room = r.room, !.err = r.err,
                                 !.escaped = r.escaped]
    /\ UNCHANGED <<ad, cv, hist>>

\* the directory: every configuration of a call and every answer to it
NextDir == CreateOrJoin \/ CreateOrJoinResponse

SpecDir == Init /\ [][NextDir]_vars

\* ------------------------------------------------------ speaker profiles
\* SpeakerIdMessageAdapter: the REST client of the voice profile service.
\* A URI is the sequence of its parts; {mode} and {dependency} are parts.
VoiceProfileTypes ==
    {"TextIndependentIdentification", "TextDependentVerification",
     "TextIndependentVerification"}

\* a property of the configuration: not set, or set to a value
Unset == [set |-> FALSE, value |-> <<>>]
Set(value) == [set |-> TRUE, value |-> value]

\* PropertyCollection.getProperty(name, def) on such a property
getPropertyOr(property, def) == IF property.set THEN property.value ELSE def

Endpoints == {Unset, Set(<<>>), Set(<<"https://e/profiles">>)}
Regions == {Unset, Set(<<"eastus">>)}
Hosts == {Unset, Set(<<"https://h/", "{mode}", "/", "{dependency}">>), Set(<<"https://h">>)}

SpeakerConfigs == [endpoint : Endpoints, region : Regions, host : Hosts]

\* the constructor: the URI the adapter keeps in privUri
SpeakerUri(config) ==
    LET endpoint == getPropertyOr(config.endpoint, <<>>)
        region == getPropertyOr(config.region, <<"westus">>)
        host == getPropertyOr(config.host,
                    <<"https://">> \o region
                    \o <<".api.cognitive.microsoft.com/speaker/", "{mode}", "/v2.0/",
                         "{dependency}">>)
    IN  IF endpoint = <<>> THEN host \o <<"/profiles">> ELSE endpoint

\* String.prototype.replace(pattern, value) with a string pattern: the first
\* occurrence only
replace(uri, pattern, value) ==
    IF \E i \in 1..Len(uri) : uri[i] = pattern
    THEN LET k == CHOOSE i \in 1..Len(uri) :
                      uri[i] = pattern /\ \A j \in 1..(i - 1) : uri[j] # pattern
         IN [uri EXCEPT ![k] = value]
    ELSE uri

\* the dependency is not looked at
getOperationUriModeOnly(privUri, profileType) ==
    replace(replace(privUri, "{mode}",
                    IF profileType = "TextIndependentIdentification"
                    THEN "identification" ELSE "verification"),
            "{dependency}", "text-independent")

getOperationUri(privUri, profileType) ==
    LET mode == IF profileType = "TextIndependentIdentification"
                THEN "identification" ELSE "verification"
        dependency == IF profileType = "TextDependentVerification"
                      THEN "text-dependent" ELSE "text-independent"
    IN  replace(replace(privUri, "{mode}", mode), "{dependency}", dependency)

\* the requests of the three methods: [method, uri]
createProfile(privUri, profileType) ==
    [method |-> "Post", uri |-> getOperationUri(privUri, profileType)]

createEnrollment(privUri, profile) ==
    [method |-> "File",
     uri |-> getOperationUri(privUri, profile.profileType)
             \o <<"/", profile.profileId, "/enrollments">>]

deleteProfile(privUri, profile) ==
    [method |-> "Delete",
     uri |-> getOperationUri(privUri, profile.profileType) \o <<"/", profile.profileId>>]

ProfileIds == {"p1", "p2"}
NoProfile == [profileType |-> "", profileId |-> ""]
VoiceProfile(profileType, profileId) == [profileType |-> profileType, profileId |-> profileId]

\* a client is constructed with any configuration
NewSpeakerIdMessageAdapter ==
    /\ out.op = "init"
    /\ \E config \in SpeakerConfigs :
          out' = [op |-> "constructor", privUri |-> SpeakerUri(config),
                  profiles |-> {}, profile |-> NoProfile,
                  request |-> [method |-> "", uri |-> <<>>]]
    /\ UNCHANGED <<ad, cv, hist>>

Constructed == out.op \in {"constructor", "createProfile", "createEnrollment", "deleteProfile"}

\* createProfile is called and the service answers with the id of the profile
CreateProfile ==
    /\ Constructed
    /\ \E profileType \in VoiceProfileTypes, profileId \in ProfileIds :
          /\ \A q \in out.profiles : q.profileId # profileId
          /\ out' = [out EXCEPT !.op = "createProfile",
                                 !.request = createProfile(out.privUri, profileType),
                                 !.profile = VoiceProfile(profileType, profileId),
                                 !.profiles = @ \cup {VoiceProfile(profileType, profileId)}]
    /\ UNCHANGED <<ad, cv, hist>>

CreateEnrollment ==
    /\ Constructed
    /\ \E profile \in out.profiles :
          out' = [out EXCEPT !.op = "createEnrollment",
                             !.request = createEnrollment(out.privUri, profile),
                             !.profile = profile]
    /\ UNCHANGED <<ad, cv, hist>>

DeleteProfile ==
    /\ Constructed
    /\ \E profile \in out.profiles :
          out' = [out EXCEPT !.op = "deleteProfile",
                             !.request = deleteProfile(out.privUri, profile),
                             !.profile = profile,
                             !.profiles = @ \ {profile}]
    /\ UNCHANGED <<ad, cv, hist>>

\* the voice profile client: profiles of every type created, enrolled, deleted
NextSpk == NewSpeakerIdMessageAdapter \/ CreateProfile \/ CreateEnrollment \/ DeleteProfile

SpecSpk == Init /\ [][NextSpk]_vars

\* =============================================================== claims
Range(q) == {q[i] : i \in 1..Len(q)}

\* the frame of a DeliverFrame step reached the switch (the loop went on)
Dispatched == out'.op = "DeliverFrame" /\ ~ad.privConversationIsDisposed /\ ~ad.terminateMessageLoop

LiveConnections(s) == {a \in Attempts : s.connection[a] \in {"Connecting", "Connected"}}

PendingOrLive(s, p) ==
    \/ s.promise[p] \in {"auth", "opening", "self", "follow"}
    \/ s.promise[p] = "resolved" /\ s.connection[p] = "Connected"

\* C1: once the first open of a connect attempt has answered 403, a retry
\* is under way whose credential comes from fetchOnExpiry.
C1_RetryWithForcedRefresh ==
    out.op = "OpenResponse403" =>
        \E b \in Attempts : ad.auth[b] = "fetchOnExpiry" /\ ad.promise[b] = "auth"

\* C2: a connect or fetch-connection call made while the adapter's attempt is
\* pending or its connection is live returns that attempt and creates no
\* connection, and at no moment two connections of one adapter are live.
C2_Coalesced ==
    [][ LET p == ad.privConversationConnectionPromise
        IN /\ Cardinality(LiveConnections(ad')) <= 1
           /\ (p # NoPromise /\ PendingOrLive(ad, p) /\ out'.op # "startConversationAsync")
                 => /\ ad'.nAttempts = ad.nAttempts
                    /\ (out'.op = "connect" \/ out'.sent # <<>>) => out'.ret = p ]_vars

\* C2 witness: connect was called while the attempt was opening its socket,
\* and returned that attempt
C2_Witness ==
    /\ out.op = "connect"
    /\ out.ret = ad.privConversationConnectionPromise
    /\ out.ret # NoPromise
    /\ ad.promise[out.ret] = "opening"
    /\ ad.nAttempts = 1

Started(c) == c.privConversationRecognizer /\ c.privRoom.defined

\* C3: lockConversationAsync called on a started session whose local
\* participant is not the host reports a permission error and hands no lock
\* request to the recognizer.
C3_NonHostLockSendsNothing ==
    [][ (out'.op = "lockConversationAsync" /\ Started(cv) /\ ~RecognizerIsDisposed(ad)
            /\ HasMe(cv) /\ ~Me(cv).isHost)
        => ("PermissionDenied" \in Range(out'.err) /\ out'.sent = <<>>) ]_vars

\* C4: sendTextMessageAsync called on a started session with a message longer
\* than textMessageMaxLength reports an argument error and hands no message
\* request to the recognizer, whatever the connection and mute state.
C4_LongMessageSendsNothing ==
    [][ (out'.op = "sendTextMessageAsync" /\ Started(cv) /\ ~RecognizerIsDisposed(ad)
            /\ out'.arg.len > textMessageMaxLength /\ ~out'.arg.blank)
        => ("InvalidArgs" \in Range(out'.err) /\ out'.sent = <<>>) ]_vars

ListHas(ps, id, isHost) == HasParticipant(ps, id) /\ getParticipant(ps, id).isHost = isHost

\* C6: for a connected non-host B: a participantlist with host A and an
\* unmuted B leaves me = B, host = A and canSend true; a setmute frame for B with
\* value true leaves canSend false; and while B is muted canSend becomes true
\* only by a frame after which B is in the registry and not muted.
C6_MuteGate ==
    [][ LET f == out'.frame
        IN /\ (Dispatched /\ cv.privIsConnected /\ cv.meId = "B"
                 /\ f.command = "participantlist"
                 /\ ListHas(f.participants, "A", TRUE) /\ ListHas(f.participants, "B", FALSE)
                 /\ ~getParticipant(f.participants, "B").isMuted)
              => (HasMe(cv') /\ Me(cv').id = "B" /\ HasHost(cv') /\ Host(cv').id = "A"
                    /\ canSend(cv'))
           /\ (Dispatched /\ cv.privIsConnected /\ cv.meId = "B" /\ HasMe(cv)
                 /\ f.command = "setmute" /\ f.id = "B" /\ f.value)
              => ~canSend(cv')
           /\ (HasMe(cv) /\ Me(cv).isMuted /\ canSend(cv'))
              => (Dispatched /\ HasMe(cv') /\ ~Me(cv').isMuted) ]_vars

\* C7: a handled participantlist frame leaves exactly its participants in the
\* registry; with the local id among them me is defined and the session is
\* ready, without it the readiness flag keeps its value.
C7_ListReplacesRegistry ==
    [][ (Dispatched /\ out'.frame.command = "participantlist")
        => /\ cv'.participants = out'.frame.participants
           /\ IF HasParticipant(out'.frame.participants, cv.meId)
              THEN HasMe(cv') /\ cv'.privIsReady
              ELSE cv'.privIsReady = cv.privIsReady ]_vars

\* C7 witness: a list without the local participant was handled by a session
\* that was not ready, and it is still not ready
C7_Witness ==
    /\ out.op = "DeliverFrame" /\ out.frame.command = "participantlist"
    /\ out.events # <<>>
    /\ cv.participants = out.frame.participants
    /\ Len(cv.participants) > 0
    /\ ~HasMe(cv) /\ ~cv.privIsReady

TranslationEvents(evs, kind) ==
    Cardinality({i \in 1..Len(evs) : evs[i] = Event("translationReceived", kind)})

\* C8: a final speech frame with empty or undefined text raises no
\* translationReceived event, a final frame with text exactly one of kind
\* final, a non-final frame exactly one of kind partial, empty text or not.
C8_SpeechEvents ==
    [][ (Dispatched /\ out'.frame.command = "speech")
        => LET f == out'.frame
               nFinal == TranslationEvents(out'.events, "final")
               nPartial == TranslationEvents(out'.events, "partial")
           IN IF f.value
              THEN nPartial = 0 /\ nFinal = (IF f.text \in {Undefined, ""} THEN 0 ELSE 1)
              ELSE nPartial = 1 /\ nFinal = 0 ]_vars

\* C8 witness: a final frame with empty text went through the switch and
\* raised nothing
C8_Witness ==
    /\ out.op = "DeliverFrame" /\ out.frame.command = "speech"
    /\ out.frame.value /\ out.frame.text = ""
    /\ out.events = <<>>
    /\ \E l \in Attempts : ad.loop[l] = "read"

\* C9: a dispose() after the first one changes nothing and raises nothing,
\* and all dispose() calls together release the connection handle at most once.
C9_SecondDisposeNoOp ==
    [][ (out'.op = "dispose" /\ hist.disposeCalls >= 1)
        => (cv' = cv /\ ad' = ad /\ out'.err = <<>> /\ hist'.released <= 1) ]_vars

\* C9 witness: dispose() has run twice on a session that holds a connection
C9_Witness ==
    /\ out.op = "dispose" /\ hist.disposeCalls = 2
    /\ cv.privConversationRecognizerConnection

CommandOps ==
    {"lockConversationAsync", "unlockConversationAsync", "muteAllParticipantsAsync",
     "unmuteAllParticipantsAsync", "muteParticipantAsync", "unmuteParticipantAsync",
     "removeParticipantAsync", "sendTextMessageAsync"}

\* C10: once dispose() has been called every command method reports an error
\* to the failure continuation, hands nothing to the recognizer and does not
\* invoke the success continuation.
C10_CommandsFailAfterDispose ==
    [][ (out'.op \in CommandOps /\ hist.disposeCalls >= 1)
        => ("ObjectDisposed" \in Range(out'.err) /\ out'.sent = <<>> /\ out'.cb = 0) ]_vars

\* the calls that run dispose(): dispose itself, endConversationAsync, and a
\* deleteConversationAsync that got as far as the leave request
Disposing ==
    \/ out.op \in {"dispose", "endConversationAsync"}
    \/ out.op = "deleteConversationAsync" /\ out.sent # <<>>

\* C11: right after dispose(), endConversationAsync or deleteConversationAsync
\* the session is disposed: isDisposed() is true, the room (conversationId) is
\* cleared, the registry and the connection handle are released and
\* isConnected is false.
C11_DisposedIsTerminal ==
    Disposing =>
        /\ cv.privIsDisposed
        /\ ~cv.privRoom.defined
        /\ cv.participants = <<>>
        /\ ~cv.privConversationRecognizerConnection
        /\ ~isConnected(cv)

\* the fetch of the connection fails in this step for a loop that waits on it
FetchFails(l) ==
    /\ ad.loop[l] = "wait"
    /\ ad.promise[ad.loopOn[l]] \in {"auth", "opening"}
    /\ ad'.promise[ad.loopOn[l]] = "rejected"

\* C12: when the connection a receive loop waits for fails, the loop ends
\* without a further read and a canceled event is raised to the conversation.
C12_LoopFailureIsCanceled ==
    [][ \A l \in Attempts :
            FetchFails(l) =>
                /\ ad'.loop[l] = "ended"
                /\ Event("canceled", "") \in Range(out'.events) ]_vars

\* C13: a frame handled while the connection is live and the adapter neither
\* disposed nor flagged does not stop the loops: every loop that had a read
\* outstanding on a connection that is still open has one afterwards.
C13_LoopSurvivesAnyFrame ==
    [][ Dispatched =>
            \A l \in Attempts :
                (ad.loop[l] = "read" /\ ad'.connection[ad.loopOn[l]] = "Connected")
                    => ad'.loop[l] = "read" ]_vars

\* what the handler of the step leaves in the conversation when its
\* subscriber returns normally
AsIfReturned ==
    IF out'.op = "DeliverFrame" THEN Dispatch(cv, out'.frame).cv
    ELSE IF out'.op = "OpenResponse" THEN onConnected(cv).cv
    ELSE IF out'.op = "ConnectionClosed" THEN onDisconnected(cv, ad).cv
    ELSE onCanceled(cv, ad).cv

Pending(s, a) == s.promise[a] \in {"auth", "opening", "self", "follow"}

\* the steps in which privDisconnect runs on a connection promise that is set
Disconnects ==
    /\ ad.privConversationConnectionPromise # NoPromise
    /\ \/ out'.op = "disconnect"
       \/ /\ out'.op \in {"ConnectionClosed", "cancelRecognition", "endConversationAsync"}
          /\ cv.privConversationRecognizerConnection
          /\ out'.events # <<>> \/ out'.op = "endConversationAsync"

\* loop l had a read outstanding on a connection the adapter has disposed,
\* and the read completes in this step
ReadCompletesAfterDispose(l) ==
    /\ out'.op \in {"ReadEnds", "DeliverFrame"}
    /\ ad.loop[l] = "read"
    /\ ad.disposed[ad.loopOn[l]] >= 1
    /\ <<ad'.loop[l], ad'.loopOn[l]>> # <<ad.loop[l], ad.loopOn[l]>>

\* C15: privDisconnect sets the termination flag and disposes the connection,
\* at once when the connect attempt has resolved and otherwise in the step
\* that resolves it; a read that completes with the flag set dispatches
\* nothing; and the loop whose read was outstanding on the disposed connection
\* exits when that read completes, without a further read or connect attempt.
C15_DisconnectStopsLoop ==
    [][ /\ Disconnects =>
              LET p == ad.privConversationConnectionPromise
              IN /\ ad'.terminateMessageLoop
                 /\ ad.promise[p] = "resolved" => ad'.connection[p] = "Disconnected"
                 /\ Pending(ad, p) => ad'.onSuccess[p] >= 1
        /\ \A a \in Attempts :
              (ad.onSuccess[a] >= 1 /\ Pending(ad, a) /\ ad'.promise[a] = "resolved")
                  => (ad'.connection[a] = "Disconnected" /\ ad'.disposed[a] >= 1)
        /\ (out'.op = "DeliverFrame" /\ ad.terminateMessageLoop)
              => (out'.events = <<>> /\ cv' = cv)
        /\ \A l \in Attempts :
              ReadCompletesAfterDispose(l)
                  => (ad'.loop[l] = "done" /\ ad'.nAttempts = ad.nAttempts) ]_vars

\* the steps that run the adapter's privDisconnect or the conversation's close
Teardowns == {"disconnect", "ConnectionClosed", "cancelRecognition", "endConversationAsync"}

\* C16: privDisconnect and close are idempotent: called in any state, also
\* twice in a row or before any connect, they throw nothing, and no
\* connection is ever disposed more than once.
C16_TeardownIdempotent ==
    /\ out.op \in Teardowns => out.err = <<>>
    /\ \A a \in Attempts : ad.disposed[a] <= 1

\* the call creates a room: no conversation code was given
Creating == out.conversationCode = Undefined

\* the configuration the directory has to refuse: an empty language,
\* nickname or endpoint host; a creation without a region, or a creation
\* with neither a subscription key nor an authorization token
Misconfigured ==
    \/ getProperty(out.args.languageCode, "en-US") \in {"", " "}
    \/ out.args.nickname \in {Undefined, "", " "}
    \/ getProperty(out.args.endpointHost, "dev.microsofttranslator.com") \in {"", " "}
    \/ Creating /\ out.args.subscriptionRegion = Undefined
    \/ Creating /\ out.args.subscriptionKey \in {Undefined, ""}
                /\ out.args.authToken \in {Undefined, ""}

\* C17: a createOrJoin call with an empty language, nickname or endpoint
\* host, or a creation without a region or without any credential, reports a
\* configuration error to the failure continuation and issues no request
C17_MisconfiguredCallSendsNothing ==
    (out.op = "createOrJoin" /\ Misconfigured)
        => out.err = <<"ConfigurationError">> /\ ~out.request.issued

\* the failure continuation got one service error with the status of the response
ServiceFailure ==
    out.err = <<[kind |-> "ServiceError", status |-> out.response.status]>>

\* C18: the answer to a createOrJoin request has exactly one outcome: the
\* success continuation receives a full descriptor, or the failure
\* continuation receives a service error with the HTTP status; a non-success
\* response never reaches the success continuation and a success response
\* never yields an empty or absent descriptor
C18_OneOutcomePerResponse ==
    out.op = "createOrJoinResponse" =>
        /\ \/ out.cb = 1 /\ out.room = "room" /\ out.err = <<>>
           \/ out.cb = 0 /\ ServiceFailure
        /\ ~out.response.ok => out.cb = 0
        /\ out.response.ok => out.cb = 1 /\ out.room = "room"

CredentialHeaders == {"subscriptionKey", "authorization"}

\* C19: a join request carries neither a subscription key, a bearer token nor
\* the region header; a create request carries the region header and exactly
\* one of subscription key and bearer token
C19_CredentialsOnlyWhenCreating ==
    (out.op = "createOrJoin" /\ out.request.issued) =>
        IF Creating
        THEN /\ "subscriptionRegion" \in out.request.headers
             /\ Cardinality(out.request.headers \cap CredentialHeaders) = 1
        ELSE out.request.headers \cap (CredentialHeaders \cup {"subscriptionRegion"}) = {}

\* C20: deleteConversationAsync tears the session down in the call itself,
\* while the leave request is still awaiting its response, and the response,
\* whatever its status, invokes the success continuation and never the
\* failure continuation
C20_LeaveFailureIsIgnored ==
    /\ (out.op = "deleteConversationAsync" /\ out.sent # <<>>)
          => /\ hist.leaves >= 1
             /\ cv.privIsDisposed /\ ~cv.privRoom.defined /\ ~isConnected(cv)
    /\ out.op = "leaveResponse" => out.cb = 1 /\ out.err = <<>>

MuteOps == {"muteParticipantAsync", "unmuteParticipantAsync"}

\* C21: muteParticipantAsync or unmuteParticipantAsync called by a connected,
\* unmuted participant who is not the host, with the id of another
\* participant, reports a permission error, hands no mute request to the
\* recognizer and does not invoke the success continuation
C21_NonHostMuteOfOtherRejected ==
    [][ (out'.op \in MuteOps /\ Started(cv) /\ ~RecognizerIsDisposed(ad)
            /\ cv.privIsConnected /\ HasMe(cv) /\ ~Me(cv).isHost /\ ~Me(cv).isMuted
            /\ out'.arg.userId \in Ids /\ out'.arg.userId # Me(cv).id)
        => ("PermissionDenied" \in Range(out'.err) /\ out'.sent = <<>> /\ out'.cb = 0) ]_vars

\* the read of loop l completes in this step because its connection was lost
LossObserved(l) ==
    /\ out'.op = "ReadEnds"
    /\ ad.loop[l] = "read"
    /\ ad.connection[ad.loopOn[l]] = "Disconnected"
    /\ <<ad'.loop[l], ad'.loopOn[l]>> # <<ad.loop[l], ad.loopOn[l]>>

\* C22: when the receive loop finds its connection lost it stops, and the
\* adapter starts no connect attempt (credential fetch, socket open) in that
\* step: attempts start only in connect / start calls of the application
C22_NoReconnectOnItsOwn ==
    [][ \A l \in Attempts :
          LossObserved(l) => /\ ad'.loop[l] \in {"done", "ended"}
                             /\ ad'.nAttempts = ad.nAttempts ]_vars

\* C23: startConversationAsync called while the recognizer of an earlier
\* start exists reports an error, creates no recognizer and starts no
\* connect attempt: the adapter and the conversation stay as they are
C23_SecondStartRefused ==
    [][ (out'.op = "startConversationAsync" /\ Started(cv))
        => /\ "PermissionDenied" \in Range(out'.err)
           /\ out'.sent = <<>>
           /\ ad' = ad /\ cv' = cv ]_vars

\* loop l stops in this step
LoopStops(l) == ad.loop[l] \in {"wait", "read"} /\ ad'.loop[l] \in {"done", "ended"}

\* C24: when the receive loop stops, on its first read or on a later one,
\* the promise startMessageLoop returned for it is resolved
C24_StoppedLoopResolves ==
    [][ \A l \in Attempts : LoopStops(l) => LoopResolved(ad', l) ]_vars

\* the credential fetch of attempt a is answered with an error in this step
AuthFails(a) ==
    /\ out'.op = "AuthCompleted" /\ out'.arg.isError
    /\ ad.promise[a] = "auth" /\ ad'.promise[a] # "auth"

\* attempt a has failed without a connection
FailedAtAuth(s, a) == s.promise[a] = "rejected" /\ s.connection[a] = "none"

\* C25: when the credential fetch of a connect attempt fails the attempt is
\* rejected: no connection is created or opened for it, no connection-opened
\* event is raised, no other attempt starts, and the adapter never fetches a
\* credential or creates a connection for that attempt afterwards
C25_AuthFailureFailsAttempt ==
    [][ \A a \in Attempts :
          /\ AuthFails(a) => /\ FailedAtAuth(ad', a)
                             /\ ad'.auth[a] = ad.auth[a]
                             /\ ad'.nAttempts = ad.nAttempts
                             /\ ad'.connection = ad.connection
                             /\ out'.events = <<>>
          /\ (FailedAtAuth(ad, a) /\ out'.op # "startConversationAsync")
                => FailedAtAuth(ad', a) /\ ad'.auth[a] = ad.auth[a] ]_vars

\* C25 witness: the fetch of the only attempt has just failed
C25_Witness ==
    /\ out.op = "AuthCompleted" /\ out.arg.isError
    /\ ad.nAttempts = 1 /\ FailedAtAuth(ad, 1) /\ ad.auth[1] = "fetch"

\* how often the connection-opened event is among the events es
NumOpened(es) == Cardinality({i \in 1..Len(es) : es[i] = Event("connectionOpened", "")})

\* the open of attempt a is answered in this step
OpenAnswered(a) ==
    /\ out'.op \in {"OpenResponse", "OpenResponse403"}
    /\ ad.promise[a] = "opening" /\ ad'.promise[a] # "opening"

\* C26: a step raises the connection-opened event exactly when it is a socket
\* open answering 200, and then once; an open answered with a status other
\* than 200 and 403 rejects the attempt with an error that names the status,
\* and raises no connection-opened event
C26_OpenedExactlyOn200 ==
    [][ /\ NumOpened(out'.events) =
              IF out'.op = "OpenResponse" /\ out'.arg.statusCode = 200 THEN 1 ELSE 0
        /\ \A a \in Attempts :
              (OpenAnswered(a) /\ out'.arg.statusCode \notin {200, 403})
                 => /\ ad'.promise[a] = "rejected"
                    /\ ad'.error[a] = "Unable to contact server. StatusCode: "
                                          \o ToString(out'.arg.statusCode) ]_vars

\* C26 witness: after an attempt was refused with status 500, the open of a
\* later attempt answers 200 and the event is raised
C26_Witness ==
    /\ out.op = "OpenResponse" /\ out.arg.statusCode = 200
    /\ NumOpened(out.events) = 1
    /\ \E a \in Attempts : ad.error[a] = "Unable to contact server. StatusCode: 500"

\* the frame with its type tag and command name in lower case
LowerCaseFrame(f) ==
    IF f.command = "SetMuteAll" THEN Frame("setmuteall", <<>>, "", "", f.value, "")
    ELSE IF f.command = "LEAVESESSION" THEN Frame("leavesession", <<>>, "", f.id, f.value, "")
    ELSE IF f.type = "FINAL" THEN [f EXCEPT !.type = "final"]
    ELSE f

\* C27: a frame whose type tag or command name is written in another case is
\* handled as the lower-case frame is; a frame with an unrecognized command
\* name or type tag raises no event, changes nothing in the conversation, and
\* the loop goes on reading
C27_NamesMatchedIgnoringCase ==
    [][ Dispatched =>
          /\ out'.frame \in MixedCaseFrames
                => /\ cv' = Dispatch(cv, LowerCaseFrame(out'.frame)).cv
                   /\ out'.events = Dispatch(cv, LowerCaseFrame(out'.frame)).events
          /\ out'.frame \in UnrecognizedFrames
                => /\ cv' = cv /\ out'.events = <<>>
                   /\ \A l \in Attempts :
                         (ad.loop[l] = "read" /\ ad'.connection[ad.loopOn[l]] = "Connected")
                            => ad'.loop[l] = "read" ]_vars

\* C27 witness: a SetMuteAll frame of type Command has muted a guest
C27_Witness ==
    /\ out.op = "DeliverFrame" /\ out.frame.command = "SetMuteAll"
    /\ out.events = <<Event("participantsChanged", "Updated")>>
    /\ \E i \in 1..Len(cv.participants) : cv.participants[i].isMuted

\* the participants of the registry that are not the host
Guests(ps) == {i \in 1..Len(ps) : ~ps[i].isHost}

\* C28: after a setmuteall frame with value v every participant that is not
\* the host has isMuted = v and every host has isMuted = FALSE; the ids of
\* the registry, their order and their host flags are unchanged, and exactly
\* one participants-changed event with reason Updated is raised
C28_MuteAllAppliesToGuests ==
    [][ (Dispatched /\ out'.frame.command \in {"setmuteall", "SetMuteAll"})
        => /\ Len(cv'.participants) = Len(cv.participants)
           /\ \A i \in 1..Len(cv.participants) :
                 /\ cv'.participants[i].id = cv.participants[i].id
                 /\ cv'.participants[i].isHost = cv.participants[i].isHost
                 /\ cv'.participants[i].isMuted =
                        IF i \in Guests(cv.participants) THEN out'.frame.value ELSE FALSE
           /\ cv'.meId = cv.meId
           /\ out'.events = <<Event("participantsChanged", "Updated")>> ]_vars

\* C28 witness: a mute-all frame has just been handled with a host and a
\* guest in the registry
C28_Witness ==
    /\ out.op = "DeliverFrame" /\ out.frame.command = "setmuteall" /\ out.frame.value
    /\ out.events = <<Event("participantsChanged", "Updated")>>
    /\ \E i, j \in 1..Len(cv.participants) :
          /\ cv.participants[i].isHost /\ ~cv.participants[i].isMuted
          /\ ~cv.participants[j].isHost /\ cv.participants[j].isMuted

\* the participants of ps other than the one with this id, in their order
Others(ps, id) == SelectSeq(ps, LAMBDA q : q.id # id)

\* C29: a leavesession frame for a participant of the registry removes that
\* participant and no other and raises one participants-changed event with
\* reason LeftConversation; for an id that is not in the registry it changes
\* nothing and raises no event; either way the loop goes on reading
C29_LeaveRemovesOneOrNothing ==
    [][ (Dispatched /\ out'.frame.command \in {"leavesession", "LEAVESESSION"})
        => /\ IF out'.frame.id \in IdsOf(cv.participants)
              THEN /\ cv'.participants = Others(cv.participants, out'.frame.id)
                   /\ Len(cv'.participants) = Len(cv.participants) - 1
                   /\ out'.events = <<Event("participantsChanged", "LeftConversation")>>
              ELSE /\ cv'.participants = cv.participants
                   /\ out'.events = <<>>
           /\ [cv' EXCEPT !.participants = <<>>] = [cv EXCEPT !.participants = <<>>]
           /\ \A l \in Attempts :
                 (ad.loop[l] = "read" /\ ad'.connection[ad.loopOn[l]] = "Connected")
                    => ad'.loop[l] = "read" ]_vars

\* C29 witness: a leavesession frame for an id that is not in a non-empty
\* registry has just been handled without an event
C29_Witness ==
    /\ out.op = "DeliverFrame" /\ out.frame.command = "leavesession"
    /\ out.frame.id \notin IdsOf(cv.participants)
    /\ cv.participants # <<>>
    /\ out.events = <<>>
    /\ \E l \in Attempts : ad.loop[l] = "read"

\* the ids whose muted flag differs between two registries that both have them
MutedChanged(ps, qs) ==
    {id \in IdsOf(ps) \cap IdsOf(qs) :
        getParticipant(ps, id).isMuted # getParticipant(qs, id).isMuted}

MuteFrames == {"setmute", "setmuteall", "participantlist", "joinsession"}

\* C30: a command method that hands its request to the recognizer invokes the
\* success continuation in the call itself, and the call leaves the
\* conversation (registry, flags, room) as it was; the muted flag of a
\* participant changes only in the step that handles a setmute, setmuteall,
\* participantlist or joinsession frame
C30_CommandsAreFireAndContinue ==
    [][ /\ out'.op \in CommandOps
              => /\ cv' = cv
                 /\ out'.events = <<>>
                 /\ out'.sent # <<>> => out'.cb = 1
        /\ MutedChanged(cv.participants, cv'.participants) # {}
              => out'.op = "DeliverFrame" /\ out'.frame.command \in MuteFrames ]_vars

\* C30 witness: the local participant has asked to be muted over the open
\* connection, the continuation has run, and the registry still has the
\* participant unmuted
C30_Witness ==
    /\ out.op = "muteParticipantAsync" /\ out.wire /\ out.cb = 1 /\ out.err = <<>>
    /\ HasMe(cv) /\ out.arg = [userId |-> Me(cv).id] /\ ~Me(cv).isMuted

\* the step has handled the frame it read: the loop had not been told to
\* stop and the frame could be parsed
FrameHandled ==
    /\ out'.op = "DeliverFrame"
    /\ ~(ad.privConversationIsDisposed \/ ad.terminateMessageLoop)
    /\ ~Throws(out'.frame)

ListHandled ==
    /\ FrameHandled
    /\ toLowerCase(out'.frame.type) \in {"info", "participant_command", "command"}
    /\ toLowerCase(out'.frame.command) = "participantlist"

\* C31: a handled participantlist frame that carries a session token makes it
\* the token of the room, a participantlist frame without one and every other
\* frame leave the token as it was, and a leave request is issued with the
\* token the room holds at that moment
C31_TokenRotatedOnlyByServer ==
    [][ /\ (ListHandled /\ out'.frame.token # Undefined)
              => cv'.privRoom.token = out'.frame.token
        /\ (out'.op = "DeliverFrame" /\ ~(ListHandled /\ out'.frame.token # Undefined))
              => cv'.privRoom = cv.privRoom
        /\ (out'.op = "deleteConversationAsync" /\ out'.sent # <<>>)
              => out'.sent = <<"leave">> /\ out'.arg = [token |-> cv.privRoom.token] ]_vars

\* C31 witness: the room was created with token t0, the service has sent
\* another token and the leave request has gone out with that one
C31_Witness ==
    /\ out.op = "deleteConversationAsync" /\ out.sent = <<"leave">>
    /\ out.arg = [token |-> "t2"] /\ cv.privRoom.token = "t2"

\* C32: while the connection is open and no participantlist frame with the
\* local participant has been handled yet, canSend is false and a call of
\* sendTextMessageAsync hands no frame to the recognizer
C32_NoSendBeforeList ==
    (cv.privIsConnected /\ ~cv.privIsReady)
        => /\ ~canSend(cv)
           /\ out.op = "sendTextMessageAsync" => out.sent = <<>>

\* C33: a call of a command method invokes at most one continuation and
\* invokes it at most once, and a call that has reported an error has not
\* invoked the success continuation and has handed no request to the recognizer
C33_OneContinuationPerCall ==
    out.op \in CommandOps
        => /\ Len(out.err) + out.cb <= 1
           /\ out.err # <<>> => (out.cb = 0 /\ out.sent = <<>>)

\* the loops that have a read outstanding on the connection of attempt p
Readers(p) == {l \in Attempts : ad.loop[l] = "read" /\ ad.loopOn[l] = p}

\* C34: at most one receive loop has a read outstanding on a connection
C34_OneReadOutstanding ==
    \A p \in Attempts : Cardinality(Readers(p)) <= 1

\* C35: every connect attempt that has been started completes, with an open
\* connection or with a failure, whatever the statuses of the opens are
C35_AttemptCompletes ==
    \A a \in Attempts : (ad.promise[a] = "auth") ~> IsCompleted(ad, a)

\* the connection of the conversation has opened in this step
LinkOpens == out'.op = "OpenResponse" /\ ~cv.privIsConnected /\ cv'.privIsConnected

\* C36: isConnected is false once a close, a disconnected or a canceled event
\* has been handled, and it is still false when a connection has just
\* opened: no participantlist frame has been handled on that connection yet
C36_ConnectedNeedsListOnConnection ==
    [][ /\ hist'.link \in {"disconnected", "canceled", "closed"} => ~isConnected(cv')
        /\ LinkOpens => ~isConnected(cv') ]_vars

\* the last connection event handled is a disconnected or a canceled event
\* and startConversationAsync has not been called since
LinkLost == hist.link \in {"disconnected", "canceled"}

AttributeHandled ==
    /\ FrameHandled
    /\ toLowerCase(out'.frame.type) \in {"info", "participant_command", "command"}
    /\ toLowerCase(out'.frame.command) \in DOMAIN AttributeKeys

\* the participant q, as the application reads it, has the value of frame f
Shows(q, f) ==
    CASE f.command = "changenickname" -> q.displayName = f.text
      [] f.command = "setmute" -> q.isMuted = f.value
      [] f.command = "setusetts" -> q.isUsingTts = f.value

\* C38: after a changenickname, setmute or setusetts frame for a participant
\* of the registry has been handled, the participant read back from the
\* registry shows the new value, every other participant is as before, and
\* one participantsChanged event with reason Updated has been raised
C38_AttributeReadBack ==
    [][ (AttributeHandled /\ HasParticipant(cv.participants, out'.frame.id)
            /\ out'.frame.command \in {"changenickname", "setmute", "setusetts"})
        => /\ HasParticipant(cv'.participants, out'.frame.id)
           /\ Shows(toParticipant(getParticipant(cv'.participants, out'.frame.id)), out'.frame)
           /\ Len(cv'.participants) = Len(cv.participants)
           /\ \A j \in 1..Len(cv.participants) :
                 cv.participants[j].id # out'.frame.id
                     => cv'.participants[j] = cv.participants[j]
           /\ out'.events = <<Event("participantsChanged", "Updated")>> ]_vars

\* C39: a participant-attribute frame for an id that is not in the registry
\* leaves the conversation as it was and raises no event
C39_UnknownParticipantIgnored ==
    [][ (AttributeHandled /\ ~HasParticipant(cv.participants, out'.frame.id))
        => (cv' = cv /\ out'.events = <<>>) ]_vars

\* C39 witness: a setusetts frame for A has been handled while the registry
\* holds B only
C39_Witness ==
    /\ out.op = "DeliverFrame" /\ out.frame.command = "setusetts" /\ out.frame.id = "A"
    /\ IdsOf(cv.participants) = {"B"}
    /\ out.events = <<>>
    /\ \E l \in Attempts : ad.loop[l] = "read" /\ ~ad.terminateMessageLoop

\* the mode and the dependency of each voice profile type
EndpointOf ==
    [t \in VoiceProfileTypes |->
        CASE t = "TextIndependentIdentification" ->
                 [mode |-> "identification", dependency |-> "text-independent"]
          [] t = "TextIndependentVerification" ->
                 [mode |-> "verification", dependency |-> "text-independent"]
          [] t = "TextDependentVerification" ->
                 [mode |-> "verification", dependency |-> "text-dependent"]]

\* the parts of a URI, each placeholder standing for what it is given
Filled(uri, e) ==
    [i \in 1..Len(uri) |->
        IF uri[i] = "{mode}" THEN e.mode
        ELSE IF uri[i] = "{dependency}" THEN e.dependency ELSE uri[i]]

\* the path a request adds to the endpoint of the profile's type
PathOf(op, profileId) ==
    CASE op = "createProfile" -> <<>>
      [] op = "createEnrollment" -> <<"/", profileId, "/enrollments">>
      [] op = "deleteProfile" -> <<"/", profileId>>

\* C40: the request of createProfile, createEnrollment and deleteProfile goes
\* to the endpoint of the profile's type, that is the adapter's URI with
\* {mode} and {dependency} filled in as the type prescribes, followed by the
\* path of the operation
C40_OneEndpointPerProfileType ==
    out.op \in {"createProfile", "createEnrollment", "deleteProfile"}
        => out.request.uri =
               Filled(out.privUri, EndpointOf[out.profile.profileType])
               \o PathOf(out.op, out.profile.profileId)

\* C40 witness: a text-dependent verification profile has been created and is
\* deleted under the verification / text-dependent endpoint of the default host
C40_Witness ==
    /\ out.op = "deleteProfile"
    /\ out.profile.profileType = "TextDependentVerification"
    /\ out.request.uri =
           <<"https://", "westus", ".api.cognitive.microsoft.com/speaker/", "verification",
             "/v2.0/", "text-dependent", "/profiles", "/", out.profile.profileId>>

====
